---- MODULE Spec2Model ----
(***************************************************************************)
(* FileUploader (src/components/text-split/FileUploader.js): the upload    *)
(* and delete lifecycle of the file panel of one project.                  *)
(*                                                                         *)
(* The component state is the nine useState cells.  Every async handler is *)
(* cut at its awaits: the code between two awaits runs in one browser task *)
(* and is one action.  A running handler keeps its closure (the `files`    *)
(* and `fileToDelete` it was called with, its local uploadedFileNames) in  *)
(* upFlows / delFlows.  The backend and the network are the environment:   *)
(* a request is answered in two steps (the server handles it, the client   *)
(* receives the response), in any order across requests.                   *)
(***************************************************************************)
EXTENDS Integers, Sequences, FiniteSets, TLC

(* ------------------------------ bounds -------------------------------- *)
\* upload flows (calls of handleStartUpload) per behaviour
MaxUploads == 1
\* upload flows per behaviour where the flows are to overlap (SpecOverlap)
MaxOverlap == 2
\* delete flows (calls of handleDeleteFile that issue a DELETE) per behaviour
MaxDeletes == 1
\* length of `files` (staged files)
MaxFiles == 2
\* length of one selection (event.target.files)
MaxCand == 2

(* ---------------------------- file names ------------------------------ *)
\* A file name is a sequence of characters.
NameA == <<"a", " ", ".", "m", "d">>
NameB == <<"b", ".", "m", "d">>
NameT == <<"n", ".", "t", "x", "t">>
NameM == <<"m", "d">>
Names == {NameA, NameB, NameT, NameM}
MdSuffix == <<".", "m", "d">>

\* String.prototype.endsWith
EndsWith(s, suf) ==
    /\ Len(s) >= Len(suf)
    /\ SubSeq(s, Len(s) - Len(suf) + 1, Len(s)) = suf

\* faulty variant: the extension is tested without its dot
ValidFilesNoDot(sel) == SelectSeq(sel, LAMBDA f : EndsWith(f, <<"m", "d">>))

\* Array.prototype.filter with the predicate of line 70
ValidFiles(sel) == SelectSeq(sel, LAMBDA f : EndsWith(f, MdSuffix))

\* Array.prototype.filter with the predicate of line 71
InvalidFiles(sel) == SelectSeq(sel, LAMBDA f : ~EndsWith(f, MdSuffix))

\* Array.prototype.join(', ') over the names
RECURSIVE JoinNames(_)
JoinNames(ns) ==
    IF ns = <<>> THEN <<>>
    ELSE IF Len(ns) = 1 THEN Head(ns)
    ELSE Head(ns) \o <<",", " ">> \o JoinNames(Tail(ns))

\* faulty variant: the index is taken as 1-based
RECURSIVE FilterIndexFromOne(_, _, _)
FilterIndexFromOne(prev, index, i) ==
    IF prev = <<>> THEN <<>>
    ELSE IF i + 1 # index
    THEN <<Head(prev)>> \o FilterIndexFromOne(Tail(prev), index, i + 1)
    ELSE FilterIndexFromOne(Tail(prev), index, i + 1)

\* prev.filter((_, i) => i !== index), index 0-based
RECURSIVE FilterIndex(_, _, _)
FilterIndex(prev, index, i) ==
    IF prev = <<>> THEN <<>>
    ELSE IF i # index THEN <<Head(prev)>> \o FilterIndex(Tail(prev), index, i + 1)
    ELSE FilterIndex(Tail(prev), index, i + 1)

\* encodeURIComponent on the characters the names use: letters and "." are
\* unreserved; " " and "%" are percent-encoded
RECURSIVE EncodeURIComponent(_)
EncodeURIComponent(s) ==
    IF s = <<>> THEN <<>>
    ELSE (CASE Head(s) = " " -> <<"%", "2", "0">>
            [] Head(s) = "%" -> <<"%", "2", "5">>
            [] OTHER -> <<Head(s)>>) \o EncodeURIComponent(Tail(s))

(* ------------------------------ messages ------------------------------ *)
\* null and '' of a message cell: both are falsy and show no banner
NoText == <<>>
LimitMessage == <<"one file per project; delete the existing file first">>
FormatMessage(invalid) ==
    <<"unsupported format: ">> \o JoinNames(invalid) \o <<". only Markdown is supported">>
NoModelMessage == <<"no model selected">>
ParseModelMessage == <<"could not parse model info">>
ListFallback == <<"list failed">>
UploadFallback == <<"upload failed">>
DeleteFallback == <<"delete failed">>
UploadedMessage(n) == <<"uploaded ", ToString(n), " files">>
DeletedMessage(f) == <<"deleted ">> \o f

\* errorData.error || fallback: the body's error field is absent ({}), or a
\* string; '' is falsy
ErrorOr(err, fallback) ==
    IF err = {} \/ err = {""} THEN fallback ELSE <<CHOOSE e \in err : TRUE>>

(* --------------------------- local storage ---------------------------- *)
\* A key of localStorage holds no item ({}) or one string ({s}).
ModelIds == {{}, {""}, {"m1"}}
InfoGood == "{\"id\":\"m1\"}"
InfoBad == "{id:"
ModelInfos == {{}, {InfoGood}, {InfoBad}}
\* what the rest of the application may have stored under the two keys
LocalStorages == [selectedModelId : ModelIds, selectedModelInfo : ModelInfos]

\* !x for the result of localStorage.getItem: null and '' are falsy
Falsy(item) == item = {} \/ item = {""}

\* JSON.parse on the stored payloads: the parsed value, or a SyntaxError
JSONParse(s) ==
    CASE s = InfoGood -> [ok |-> TRUE, value |-> "object m1"]
      [] OTHER -> [ok |-> FALSE, value |-> "null"]

\* faulty variant: a payload that does not parse is ignored, as an absent one is
ModelLookupLenient(ls) ==
    IF Falsy(ls.selectedModelId)
    THEN [ok |-> FALSE, msg |-> NoModelMessage, info |-> "null"]
    ELSE IF Falsy(ls.selectedModelInfo)
    THEN [ok |-> TRUE, msg |-> NoText, info |-> "null"]
    ELSE LET p == JSONParse(CHOOSE s \in ls.selectedModelInfo : TRUE)
         IN  [ok |-> TRUE, msg |-> NoText,
              info |-> IF p.ok THEN p.value ELSE "null"]

\* lines 102-118: the model lookup at the head of handleStartUpload
ModelLookup(ls) ==
    IF Falsy(ls.selectedModelId)
    THEN [ok |-> FALSE, msg |-> NoModelMessage, info |-> "null"]
    ELSE IF Falsy(ls.selectedModelInfo)
    THEN [ok |-> TRUE, msg |-> NoText, info |-> "null"]
    ELSE LET p == JSONParse(CHOOSE s \in ls.selectedModelInfo : TRUE)
         IN  IF p.ok
             THEN [ok |-> TRUE, msg |-> NoText, info |-> p.value]
             ELSE [ok |-> FALSE, msg |-> ParseModelMessage, info |-> "null"]

(* ------------------------------- state -------------------------------- *)
VARIABLES
    files,              \* useState([]), line 24: the staged files, by name
    uploadedFiles,      \* useState([]), line 25
    uploading,          \* useState(false), line 26
    loading,            \* useState(false), line 27
    error,              \* useState(null), line 28
    success,            \* useState(false), line 29
    successMessage,     \* useState(''), line 30
    deleteConfirmOpen,  \* useState(false), line 31
    fileToDelete,       \* useState(null), line 32
    upFlows,            \* the calls of handleStartUpload, in call order
    delFlows,           \* the calls of handleDeleteFile that passed line 171
    net,                \* requests and responses in flight
    server,             \* the project's files on the backend
    reloaded            \* location.reload() has replaced the page (line 196)

vars == <<files, uploadedFiles, uploading, loading, error, success, successMessage,
          deleteConfirmOpen, fileToDelete, upFlows, delFlows, net, server, reloaded>>

cells == <<files, uploadedFiles, uploading, loading, error, success, successMessage,
           deleteConfirmOpen, fileToDelete>>

Range(s) == {s[i] : i \in 1..Len(s)}

\* who awaits a request: the mount effect, upload flow i, delete flow i
MountOwner == [t |-> "mount", i |-> 0]
UpOwner(i) == [t |-> "up", i |-> i]
DelOwner(i) == [t |-> "del", i |-> i]

\* fetch(url, {method}): a request leaves the page
Request(kind, owner, n, arg) ==
    [kind |-> kind, owner |-> owner, n |-> n, arg |-> arg, phase |-> "req",
     ok |-> TRUE, err |-> {}, payload |-> <<>>]

\* the response to request m
Response(m, ok, err, payload) ==
    [m EXCEPT !.phase = "resp", !.ok = ok, !.err = err, !.payload = payload]

(* ------------------------------ backend ------------------------------- *)
\* the error field of a failure body: absent, or a message
ServerErrors == {{}, {"server error"}}

\* decodeURIComponent, the inverse the backend applies to the query
RECURSIVE DecodeURIComponent(_)
DecodeURIComponent(s) ==
    IF s = <<>> THEN <<>>
    ELSE IF Head(s) = "%" /\ Len(s) >= 3
    THEN (CASE SubSeq(s, 2, 3) = <<"2", "0">> -> <<" ">>
            [] SubSeq(s, 2, 3) = <<"2", "5">> -> <<"%">>
            [] OTHER -> <<"?">>) \o DecodeURIComponent(SubSeq(s, 4, Len(s)))
    ELSE <<Head(s)>> \o DecodeURIComponent(Tail(s))

\* POST: the file is stored under its name (a name is stored once)
ServerStore(list, name) ==
    IF name \in Range(list) THEN list ELSE Append(list, name)

\* DELETE ?fileName=<query>
ServerRemove(list, query) ==
    SelectSeq(list, LAMBDA f : f # DecodeURIComponent(query))

\* the backend's state after it has handled request m successfully
ServerAfter(m) ==
    CASE m.kind = "POST" -> ServerStore(server, m.arg)
      [] m.kind = "DELETE" -> ServerRemove(server, m.arg)
      [] OTHER -> server

\* the body of the 2xx response to m
ServerPayload(m) ==
    CASE m.kind = "GET" -> server
      [] m.kind = "POST" -> <<m.arg>>
      [] OTHER -> <<>>

\* The backend handles request m: it succeeds, or fails and changes nothing.
\* The response travels back only to the page that sent the request.
ServerHandle(m) ==
    /\ m \in net
    /\ m.phase = "req"
    /\ \E ok \in BOOLEAN : \E err \in ServerErrors :
        /\ ok => err = {}
        /\ server' = (IF ok THEN ServerAfter(m) ELSE server)
        /\ net' = (net \ {m}) \cup
                  (IF ~reloaded
                   THEN {Response(m, ok, err, IF ok THEN ServerPayload(m) ELSE <<>>)}
                   ELSE {})
    /\ UNCHANGED <<cells, upFlows, delFlows, reloaded>>

(* ---------------------------- the component --------------------------- *)
\* the directory listing the file dialog shows, in its order
Listing == <<NameA, NameB, NameM, NameT>>

\* all selections the file input can deliver: up to MaxCand files of the
\* listing, in the listing's order
RECURSIVE SubSeqsOf(_)
SubSeqsOf(s) ==
    IF s = <<>> THEN {<<>>}
    ELSE LET rest == SubSeqsOf(Tail(s))
         IN  rest \cup {<<Head(s)>> \o r : r \in rest}
Selections == {s \in SubSeqsOf(Listing) : Len(s) <= MaxCand}

\* a call of handleStartUpload: its closure and what it has done so far
UpFlow(fs, pc, sent, info, cause) ==
    [files |-> fs, names |-> <<>>, sent |-> sent, pc |-> pc, info |-> info,
     cause |-> cause, cb |-> <<>>]

\* a call of handleDeleteFile: its closure and its events so far
DelFlow(target, query) ==
    [target |-> target, query |-> query, pc |-> "delete",
     events |-> <<"DELETE sent">>, cb |-> <<>>]

\* lines 24-37: the cells after construction and the mount effect, which has
\* called fetchUploadedFiles up to its await (line 42 has run)
Mounted ==
    /\ files = <<>>
    /\ uploadedFiles = <<>>
    /\ uploading = FALSE
    /\ loading = TRUE
    /\ error = NoText
    /\ success = FALSE
    /\ successMessage = NoText
    /\ deleteConfirmOpen = FALSE
    /\ fileToDelete = NoText

Init ==
    /\ Mounted
    /\ upFlows = <<>>
    /\ delFlows = <<>>
    /\ reloaded = FALSE
    /\ net = {Request("GET", MountOwner, 0, <<>>)}
    /\ server \in {<<>>, <<NameA>>}

\* lines 61-80
HandleFileSelect(sel) ==
    /\ IF Len(uploadedFiles) > 0
       THEN /\ error' = LimitMessage
            /\ files' = files
       ELSE /\ error' = (IF Len(InvalidFiles(sel)) > 0
                         THEN FormatMessage(InvalidFiles(sel)) ELSE error)
            /\ files' = (IF Len(ValidFiles(sel)) > 0
                         THEN files \o ValidFiles(sel) ELSE files)
    /\ UNCHANGED <<uploadedFiles, uploading, loading, success, successMessage,
                   deleteConfirmOpen, fileToDelete, upFlows, delFlows,
                   net, server, reloaded>>

\* lines 83-85
RemoveFile(index) ==
    /\ index \in 0..(Len(files) - 1)
    /\ files' = FilterIndex(files, index, 0)
    /\ UNCHANGED <<uploadedFiles, uploading, loading, error, success, successMessage,
                   deleteConfirmOpen, fileToDelete, upFlows, delFlows,
                   net, server, reloaded>>

\* lines 150-154 after a throw before the first await: the batched result of
\* setUploading(true), setError(null), setError(message), setUploading(false)
LookupFailed(ls) ==
    /\ error' = ModelLookup(ls).msg
    /\ uploading' = FALSE
    /\ upFlows' = Append(upFlows, UpFlow(files, "failed", 0, "null", "lookup"))
    /\ UNCHANGED <<files, uploadedFiles, loading, success, successMessage,
                   deleteConfirmOpen, fileToDelete, delFlows, net,
                   server, reloaded>>

\* lines 97-98 and 120-129: the flow starts and awaits the POST of its first file
UploadStarted(ls) ==
    /\ uploading' = TRUE
    /\ error' = NoText
    /\ upFlows' = Append(upFlows, UpFlow(files, "post", 1, ModelLookup(ls).info, ""))
    /\ net' = net \cup {Request("POST", UpOwner(Len(upFlows) + 1), 1, files[1])}
    /\ UNCHANGED <<files, uploadedFiles, loading, success, successMessage,
                   deleteConfirmOpen, fileToDelete, delFlows, server,
                   reloaded>>

\* lines 88-93 and handleStartUpload (lines 96-129) up to its first await; ls
\* is what localStorage holds when lines 102 and 110 read it
UploadFiles(ls) ==
    IF Len(files) = 0
    THEN UNCHANGED vars
    ELSE IF ModelLookup(ls).ok THEN UploadStarted(ls) ELSE LookupFailed(ls)

\* faulty variant: the loop goes on with the next file after a refused POST
UploadFailedContinues(i, m) ==
    IF m.n < Len(upFlows[i].files)
    THEN /\ upFlows' = [upFlows EXCEPT ![i].sent = @ + 1]
         /\ net' = (net \ {m}) \cup
                   {Request("POST", UpOwner(i), m.n + 1, upFlows[i].files[m.n + 1])}
         /\ UNCHANGED <<cells, delFlows, server, reloaded>>
    ELSE /\ error' = ErrorOr(m.err, UploadFallback)
         /\ uploading' = FALSE
         /\ upFlows' = [upFlows EXCEPT ![i].pc = "failed", ![i].cause = "post"]
         /\ net' = net \ {m}
         /\ UNCHANGED <<files, uploadedFiles, loading, success, successMessage,
                        deleteConfirmOpen, fileToDelete, delFlows, server, reloaded>>

\* faulty variant: the callback is called from the finally, also after a failure
UploadFailedCallsBack(i, m) ==
    /\ error' = ErrorOr(m.err, UploadFallback)
    /\ uploading' = FALSE
    /\ upFlows' = [upFlows EXCEPT ![i].pc = "failed", ![i].cause = "post",
                                  ![i].cb = Append(@, [names |-> upFlows[i].names,
                                                       info |-> upFlows[i].info])]
    /\ net' = net \ {m}
    /\ UNCHANGED <<files, uploadedFiles, loading, success, successMessage,
                   deleteConfirmOpen, fileToDelete, delFlows, server,
                   reloaded>>

\* lines 131-134 and 150-154: the POST of flow i was refused
UploadFailed(i, m) ==
    /\ error' = ErrorOr(m.err, UploadFallback)
    /\ uploading' = FALSE
    /\ upFlows' = [upFlows EXCEPT ![i].pc = "failed", ![i].cause = "post"]
    /\ net' = net \ {m}
    /\ UNCHANGED <<files, uploadedFiles, loading, success, successMessage,
                   deleteConfirmOpen, fileToDelete, delFlows, server,
                   reloaded>>

\* faulty variant: unshift in place of push
UnshiftName(names, data) == <<data[1]>> \o names

\* line 137: uploadedFileNames.push(data.fileName)
PushName(names, data) == Append(names, data[1])

\* lines 136-138 and 122-129: the next file of the loop is posted
UploadNext(i, m) ==
    /\ upFlows' = [upFlows EXCEPT ![i].names = PushName(@, m.payload),
                                  ![i].sent = @ + 1]
    /\ net' = (net \ {m}) \cup
              {Request("POST", UpOwner(i), m.n + 1, upFlows[i].files[m.n + 1])}
    /\ UNCHANGED <<cells, delFlows, server, reloaded>>

\* lines 136-144: the loop is over; the flow awaits fetchUploadedFiles, which
\* has run up to its await (line 42)
UploadedAll(i, m) ==
    /\ successMessage' = UploadedMessage(Len(upFlows[i].files))
    /\ success' = TRUE
    /\ files' = <<>>
    /\ loading' = TRUE
    /\ upFlows' = [upFlows EXCEPT ![i].names = PushName(@, m.payload),
                                  ![i].pc = "refetch"]
    /\ net' = (net \ {m}) \cup {Request("GET", UpOwner(i), 0, <<>>)}
    /\ UNCHANGED <<uploadedFiles, uploading, error, deleteConfirmOpen, fileToDelete,
                   delFlows, server, reloaded>>

\* the response to a POST of upload flow m.owner.i arrives (lines 131-144)
PostResponse(m) ==
    /\ m \in net
    /\ m.phase = "resp"
    /\ m.kind = "POST"
    /\ IF ~m.ok THEN UploadFailed(m.owner.i, m)
       ELSE IF m.n < Len(upFlows[m.owner.i].files) THEN UploadNext(m.owner.i, m)
       ELSE UploadedAll(m.owner.i, m)

\* line 51, or the catch of line 52 which leaves the list alone
ListAfterFetch(m) == IF m.ok THEN m.payload ELSE uploadedFiles

\* lines 45-48 and 52-54: fetchUploadedFiles reports its own failure
ErrorAfterFetch(m) == IF m.ok THEN error ELSE ErrorOr(m.err, ListFallback)

\* faulty variant: setLoading(false) at the end of the try, not in a finally
LoadingAfterFetchInTry(m) == IF m.ok THEN FALSE ELSE loading

\* lines 55-57: the finally of fetchUploadedFiles
LoadingAfterFetch(m) == FALSE

\* lines 45-57 for the call of the mount effect (lines 35-37)
MountListed(m) ==
    /\ uploadedFiles' = ListAfterFetch(m)
    /\ error' = ErrorAfterFetch(m)
    /\ loading' = LoadingAfterFetch(m)
    /\ net' = net \ {m}
    /\ UNCHANGED <<files, uploading, success, successMessage, deleteConfirmOpen,
                   fileToDelete, upFlows, delFlows, server, reloaded>>

\* lines 147-149: onUploadSuccess(uploadedFileNames, selectedModelInfo)
UploadCallback(f) == Append(f.cb, [names |-> f.names, info |-> f.info])

\* lines 45-57 for the call of line 144, then lines 146-149 and 152-154
UploadListed(i, m) ==
    /\ uploadedFiles' = ListAfterFetch(m)
    /\ error' = ErrorAfterFetch(m)
    /\ loading' = LoadingAfterFetch(m)
    /\ uploading' = FALSE
    /\ upFlows' = [upFlows EXCEPT ![i].cb = UploadCallback(upFlows[i]),
                                  ![i].pc = "done"]
    /\ net' = net \ {m}
    /\ UNCHANGED <<files, success, successMessage, deleteConfirmOpen, fileToDelete,
                   delFlows, server, reloaded>>

\* lines 158-161
OpenDeleteConfirm(fileName) ==
    /\ fileName \in Range(uploadedFiles)
    /\ fileToDelete' = fileName
    /\ deleteConfirmOpen' = TRUE
    /\ UNCHANGED <<files, uploadedFiles, uploading, loading, error, success,
                   successMessage, upFlows, delFlows, net, server, reloaded>>

\* faulty variant: closing the prompt also clears the error
CloseDeleteConfirmClearsError ==
    /\ deleteConfirmOpen' = FALSE
    /\ fileToDelete' = NoText
    /\ error' = NoText
    /\ UNCHANGED <<files, uploadedFiles, uploading, loading, success,
                   successMessage, upFlows, delFlows, net, server, reloaded>>

\* lines 164-167
CloseDeleteConfirm ==
    /\ deleteConfirmOpen' = FALSE
    /\ fileToDelete' = NoText
    /\ UNCHANGED <<files, uploadedFiles, uploading, loading, error, success,
                   successMessage, upFlows, delFlows, net, server, reloaded>>

\* line 177: the DELETE request of the flow that is about to start
DeleteRequest(fileName) ==
    Request("DELETE", DelOwner(Len(delFlows) + 1), 0, EncodeURIComponent(fileName))

\* lines 170-179: handleDeleteFile up to its await
HandleDeleteFile ==
    IF fileToDelete = NoText
    THEN UNCHANGED vars
    ELSE /\ loading' = TRUE
         /\ deleteConfirmOpen' = FALSE
         /\ fileToDelete' = NoText
         /\ net' = net \cup {DeleteRequest(fileToDelete)}
         /\ delFlows' = Append(delFlows,
                               DelFlow(fileToDelete, DeleteRequest(fileToDelete).arg))
         /\ UNCHANGED <<files, uploadedFiles, uploading, error, success,
                        successMessage, upFlows, server, reloaded>>

\* faulty variant: setLoading(false) at the end of the try, not in the finally
DeleteFailedKeepsLoading(i, m) ==
    /\ error' = ErrorOr(m.err, DeleteFallback)
    /\ fileToDelete' = NoText
    /\ delFlows' = [delFlows EXCEPT ![i].pc = "failed",
                                    ![i].events = Append(@, "DELETE failed")]
    /\ net' = net \ {m}
    /\ UNCHANGED <<files, uploadedFiles, uploading, loading, success, successMessage,
                   deleteConfirmOpen, upFlows, server, reloaded>>

\* lines 181-184 and 197-203: the DELETE was refused
DeleteFailed(i, m) ==
    /\ error' = ErrorOr(m.err, DeleteFallback)
    /\ loading' = FALSE
    /\ fileToDelete' = NoText
    /\ delFlows' = [delFlows EXCEPT ![i].pc = "failed",
                                    ![i].events = Append(@, "DELETE failed")]
    /\ net' = net \ {m}
    /\ UNCHANGED <<files, uploadedFiles, uploading, success, successMessage,
                   deleteConfirmOpen, upFlows, server, reloaded>>

\* lines 186-187: the flow awaits fetchUploadedFiles, which has run up to its
\* await (line 42)
DeleteAnswered(i, m) ==
    /\ loading' = TRUE
    /\ delFlows' = [delFlows EXCEPT ![i].pc = "refetch",
                                    ![i].events = @ \o <<"DELETE ok", "GET sent">>]
    /\ net' = (net \ {m}) \cup {Request("GET", DelOwner(i), 0, <<>>)}
    /\ UNCHANGED <<files, uploadedFiles, uploading, error, success, successMessage,
                   deleteConfirmOpen, fileToDelete, upFlows, server,
                   reloaded>>

\* the response to the DELETE of delete flow m.owner.i arrives
DeleteResponse(m) ==
    /\ m \in net
    /\ m.phase = "resp"
    /\ m.kind = "DELETE"
    /\ IF m.ok THEN DeleteAnswered(m.owner.i, m) ELSE DeleteFailed(m.owner.i, m)

\* faulty variant: the page is reloaded before the callback is called
AfterRefetchReloadFirst(d) == <<"reload", "onFileDeleted", "success shown">>

\* lines 189-196 in statement order: the callback, the notification, the reload
AfterRefetch(d) == <<"onFileDeleted", "success shown", "reload">>

\* line 196: the page is replaced.  The cells are those of a newly constructed
\* component (lines 24-32); the life of the new page is a new behaviour, from
\* Init, and is not continued here.
Replaced ==
    /\ files' = <<>>
    /\ uploadedFiles' = <<>>
    /\ uploading' = FALSE
    /\ loading' = FALSE
    /\ error' = NoText
    /\ success' = FALSE
    /\ successMessage' = NoText
    /\ deleteConfirmOpen' = FALSE
    /\ fileToDelete' = NoText

\* a handler of the page that location.reload() replaces never resumes
Unload(pc) == IF pc \in {"post", "refetch", "delete"} THEN "unloaded" ELSE pc

\* lines 45-57 for the call of line 187, then lines 189-196.  location.reload()
\* replaces the page: the responses to the old page are lost, its POST and
\* DELETE requests still reach the backend.
DeleteListed(i, m) ==
    /\ Replaced
    /\ reloaded' = TRUE
    /\ delFlows' = [j \in 1..Len(delFlows) |->
                      IF j = i
                      THEN [delFlows[j] EXCEPT
                              !.pc = "done",
                              !.events = @ \o <<IF m.ok THEN "GET ok" ELSE "GET failed">>
                                           \o AfterRefetch(delFlows[j]),
                              !.cb = Append(@, delFlows[j].target)]
                      ELSE [delFlows[j] EXCEPT !.pc = Unload(@)]]
    /\ upFlows' = [j \in 1..Len(upFlows) |-> [upFlows[j] EXCEPT !.pc = Unload(@)]]
    /\ net' = {r \in net : r.phase = "req" /\ r.kind # "GET"}
    /\ UNCHANGED server

\* the response to a GET arrives at the fetchUploadedFiles call that awaits it
ListResponse(m) ==
    /\ m \in net
    /\ m.phase = "resp"
    /\ m.kind = "GET"
    /\ CASE m.owner.t = "mount" -> MountListed(m)
         [] m.owner.t = "up" -> UploadListed(m.owner.i, m)
         [] m.owner.t = "del" -> DeleteListed(m.owner.i, m)

\* lines 207-209
HandleCloseError ==
    /\ error' = NoText
    /\ UNCHANGED <<files, uploadedFiles, uploading, loading, success, successMessage,
                   deleteConfirmOpen, fileToDelete, upFlows, delFlows,
                   net, server, reloaded>>

\* faulty variant: the notification is toggled, not closed
HandleCloseSuccessToggles ==
    /\ success' = ~success
    /\ UNCHANGED <<files, uploadedFiles, uploading, loading, error, successMessage,
                   deleteConfirmOpen, fileToDelete, upFlows, delFlows,
                   net, server, reloaded>>

\* lines 212-214
HandleCloseSuccess ==
    /\ success' = FALSE
    /\ UNCHANGED <<files, uploadedFiles, uploading, loading, error, successMessage,
                   deleteConfirmOpen, fileToDelete, upFlows, delFlows,
                   net, server, reloaded>>

(* --------------------------- specifications --------------------------- *)
\* the selections that keep `files` within MaxFiles
Fits(sel) == Len(files) + Len(ValidFiles(sel)) <= MaxFiles

\* lines 229-237: the upload area stages and unstages files
Staging ==
    \/ \E sel \in Selections : Fits(sel) /\ HandleFileSelect(sel)
    \/ \E index \in 0..(MaxFiles - 1) : RemoveFile(index)

\* lines 236 and 122-149: upload flows
Uploads ==
    \/ Len(upFlows) < MaxUploads /\ \E ls \in LocalStorages : UploadFiles(ls)
    \/ \E m \in net : PostResponse(m)

\* lines 242-247 and 265-270: the delete prompt and delete flows
Deletes ==
    \/ \E fileName \in Names : OpenDeleteConfirm(fileName)
    \/ CloseDeleteConfirm
    \/ Len(delFlows) < MaxDeletes /\ HandleDeleteFile
    \/ \E m \in net : DeleteResponse(m)

\* lines 251-261: the two notifications are dismissed
Dismissals ==
    \/ HandleCloseError
    \/ HandleCloseSuccess

\* the backend answers, and fetchUploadedFiles resumes
Network ==
    \/ \E m \in net : ServerHandle(m)
    \/ ~reloaded /\ \E m \in net : ListResponse(m)

\* The whole panel: every handler, every input.
Next ==
    \/ ~reloaded /\ Staging
    \/ ~reloaded /\ Uploads
    \/ ~reloaded /\ Deletes
    \/ ~reloaded /\ Dismissals
    \/ Network

Spec == Init /\ [][Next]_vars

\* The specifications below restrict what the user does, so that TLC can
\* enumerate them; each of their behaviours is a behaviour of the panel.

\* staging and one upload flow, the mount-time list request included
NextUpload ==
    \/ Staging
    \/ Uploads
    \/ Network

SpecUpload == Init /\ [][NextUpload]_vars

\* the batches staged where flows overlap: one file, or two
Batches == {<<NameA>>, <<NameA, NameB>>}

\* upload flows that overlap: upload() is called again while a flow is running
NextOverlap ==
    \/ \E sel \in Batches : Fits(sel) /\ HandleFileSelect(sel)
    \/ Len(upFlows) < MaxOverlap /\ \E ls \in LocalStorages : UploadFiles(ls)
    \/ \E m \in net : PostResponse(m)
    \/ Network

SpecOverlap == Init /\ [][NextOverlap]_vars

\* staging, the delete prompt, delete flows and the notifications
NextManage ==
    \/ ~reloaded /\ Staging
    \/ ~reloaded /\ Deletes
    \/ ~reloaded /\ Dismissals
    \/ Network

SpecManage == Init /\ [][NextManage]_vars

\* an upload flow and a delete flow on the same page
NextFlows ==
    \/ ~reloaded /\ \E sel \in Batches : Fits(sel) /\ HandleFileSelect(sel)
    \/ ~reloaded /\ Uploads
    \/ ~reloaded /\ Deletes
    \/ Network

SpecFlows == Init /\ [][NextFlows]_vars

\* every request is answered and every response is delivered
FairSpec ==
    /\ SpecFlows
    /\ WF_vars(\E m \in net : ServerHandle(m))
    /\ WF_vars(~reloaded /\ \E m \in net : PostResponse(m))
    /\ WF_vars(~reloaded /\ \E m \in net : DeleteResponse(m))
    /\ WF_vars(~reloaded /\ \E m \in net : ListResponse(m))

\* upload flows and the two notifications they raise, with their dismissal
NextNotify ==
    \/ ~reloaded /\ \E sel \in Batches : Fits(sel) /\ HandleFileSelect(sel)
    \/ ~reloaded /\ Uploads
    \/ ~reloaded /\ Dismissals
    \/ Network

SpecNotify == Init /\ [][NextNotify]_vars

(* ------------------------------- properties ------------------------------- *)
UpIdx == 1..Len(upFlows)
DelIdx == 1..Len(delFlows)

\* the requests and responses in flight that belong to upload flow i
InFlightOf(i, msgs) == {m \in msgs : m.owner = UpOwner(i)}

\* this step delivers response m to the page
Delivered(m) == m \in net /\ m.phase = "resp" /\ m \notin net' /\ ~reloaded'

\* an upload flow that has failed does nothing more: no request, no callback
FailedStays(i) ==
    upFlows[i].pc = "failed" =>
        /\ upFlows'[i] = upFlows[i]
        /\ InFlightOf(i, net') = {}

\* the k-th POST of a flow is refused: what the flow has done, and how it ends
RefusedPost(m) ==
    LET i == m.owner.i
        f == upFlows'[i]
    IN  /\ f.pc = "failed"
        /\ f.sent = m.n
        /\ f.names = SubSeq(f.files, 1, m.n - 1)
        /\ InFlightOf(i, net') = {}
        /\ uploading' = FALSE
        /\ error' # NoText
        /\ files' = files

C3_ListIsFresh ==
    [][\A i \in UpIdx :
          (upFlows[i].pc = "refetch" /\ upFlows'[i].pc = "done") =>
              uploadedFiles' = server']_vars

\* C4: the server holds at most one file of the project.
C4_AtMostOneFile == Len(server) <= 1

\* what C5 is about: no identifier stored, or one stored with a payload that
\* is present and does not parse
NoUsableModel(ls) ==
    \/ ls.selectedModelId = {}
    \/ ls.selectedModelId # {} /\ ls.selectedModelInfo = {InfoBad}

\* C5: with files staged and no model identifier stored, or a stored payload
\* that is malformed, upload issues no request, leaves files unchanged, sets
\* error and ends with uploading false; its flow never posts and never calls
\* onUploadSuccess.
C5_LookupFailure ==
    [][/\ \A ls \in LocalStorages :
             (NoUsableModel(ls) /\ Len(files) > 0 /\ UploadFiles(ls)) =>
                 /\ net' = net
                 /\ files' = files
                 /\ error' \in {NoModelMessage, ParseModelMessage}
                 /\ uploading' = FALSE
                 /\ Len(upFlows') = Len(upFlows) + 1
                 /\ upFlows'[Len(upFlows')].cause = "lookup"
       /\ \A i \in 1..Len(upFlows') :
             upFlows'[i].cause = "lookup" =>
                 /\ upFlows'[i].pc = "failed"
                 /\ upFlows'[i].sent = 0
                 /\ upFlows'[i].cb = <<>>
                 /\ InFlightOf(i, net') = {}]_vars

\* a flow stopped at the malformed payload: two files still staged
C5_Witness ==
    \E i \in UpIdx :
        /\ upFlows[i].cause = "lookup"
        /\ error = ParseModelMessage
        /\ Len(files) = 2
        /\ files = upFlows[i].files
        /\ ~uploading

\* a name whose last three characters are ".md"
IsMd(name) ==
    /\ Len(name) >= 3
    /\ name[Len(name) - 2] = "."
    /\ name[Len(name) - 1] = "m"
    /\ name[Len(name)] = "d"

\* the characters of name stand, in a row, in the message
Occurs(name, msg) ==
    \E a \in 1..Len(msg) :
        /\ a + Len(name) - 1 <= Len(msg)
        /\ SubSeq(msg, a, a + Len(name) - 1) = name

\* added is sel without its entries that are not .md, in the order of sel
KeptInOrder(sel, added) ==
    LET ok == {j \in 1..Len(sel) : IsMd(sel[j])}
    IN  /\ Len(added) = Cardinality(ok)
        /\ \E pos \in [1..Len(added) -> 1..Len(sel)] :
              /\ \A k \in 1..Len(added) : pos[k] \in ok /\ added[k] = sel[pos[k]]
              /\ \A k, l \in 1..Len(added) : k < l => pos[k] < pos[l]

\* C6: selectFiles with uploadedFiles non-empty leaves files alone and sets the
\* single-file-limit message; otherwise it appends exactly the candidates
\* ending in ".md", in candidate order, and when a candidate is rejected it
\* sets error to a message that names every rejected candidate.
C6_SelectFiles ==
    [][\A sel \in Selections : HandleFileSelect(sel) =>
          IF uploadedFiles # <<>>
          THEN files' = files /\ error' = LimitMessage
          ELSE /\ Len(files') >= Len(files)
               /\ SubSeq(files', 1, Len(files)) = files
               /\ KeptInOrder(sel, SubSeq(files', Len(files) + 1, Len(files')))
               /\ (\E j \in 1..Len(sel) : ~IsMd(sel[j])) =>
                     /\ error' # LimitMessage
                     /\ \A j \in 1..Len(sel) :
                           Occurs(sel[j], error') <=> ~IsMd(sel[j])]_vars

\* one selection of a Markdown file and of a text file, after another file
C6_Witness ==
    /\ files = <<NameB, NameA>>
    /\ error = FormatMessage(<<NameT>>)
    /\ Occurs(NameT, error)

DeletesOf(i) == {m \in net : m.kind = "DELETE" /\ m.owner = DelOwner(i)}

\* the events of a delete flow that went through, in the order they happened
DeleteOrder(got) ==
    <<"DELETE sent", "DELETE ok", "GET sent", got,
      "onFileDeleted", "success shown", "reload">>

\* C7: a confirmed delete of f issues one DELETE whose fileName decodes to f;
\* when it succeeds the order is DELETE response, list re-fetch,
\* onFileDeleted(f) once, reload; the page is never reloaded before the
\* callback.
C7_DeleteOrder ==
    /\ \A i \in DelIdx :
          LET d == delFlows[i]
          IN  /\ d.target # NoText
              /\ DecodeURIComponent(d.query) = d.target
              /\ d.pc = "delete" =>
                    /\ Cardinality(DeletesOf(i)) = 1
                    /\ \A m \in DeletesOf(i) : m.arg = d.query
              /\ d.pc \in {"refetch", "done", "failed"} => DeletesOf(i) = {}
              /\ Cardinality(DeletesOf(i)) <= 1
              /\ Len(SelectSeq(d.events, LAMBDA e : e = "DELETE sent")) = 1
              /\ d.pc = "done" =>
                    /\ d.events \in {DeleteOrder("GET ok"), DeleteOrder("GET failed")}
                    /\ d.cb = <<d.target>>
              /\ d.pc # "done" =>
                    /\ d.cb = <<>>
                    /\ "reload" \notin Range(d.events)
                    /\ "onFileDeleted" \notin Range(d.events)
    /\ reloaded => \E i \in DelIdx : delFlows[i].pc = "done"

\* the delete of "a .md" went through: its query was percent-encoded
C7_Witness ==
    \E i \in DelIdx :
        /\ delFlows[i].pc = "done"
        /\ delFlows[i].target = NameA
        /\ delFlows[i].query = <<"a", "%", "2", "0", ".", "m", "d">>
        /\ delFlows[i].cb = <<NameA>>
        /\ reloaded

\* C8: onUploadSuccess has been called once by every flow that went through,
\* and not at all by a flow whose model lookup or whose POST failed, nor by a
\* flow that is still posting; also when flows overlap.
C8_CallbackOnce ==
    \A i \in UpIdx :
        LET f == upFlows[i]
        IN  /\ Len(f.cb) <= 1
            /\ f.pc = "done" =>
                  /\ Len(f.cb) = 1
                  /\ f.cause = ""
                  /\ Len(f.names) = Len(f.files)
            /\ f.pc # "done" => f.cb = <<>>
            /\ f.cause # "" => f.pc = "failed" /\ f.cb = <<>>

\* the second of two overlapping flows has ended while the first awaits its
\* list, and both posted every file
C8_Witness ==
    /\ Len(upFlows) = 2
    /\ upFlows[2].pc = "done"
    /\ Len(upFlows[2].cb) = 1
    /\ upFlows[1].pc = "refetch"

\* C9: with every request answered and every answer delivered, the panel is
\* again and again idle (uploading and loading both false) or has been
\* reloaded: no flow leaves a busy flag set for ever.
C9_BusyFlagsClear == []<>(reloaded \/ (~uploading /\ ~loading))

\* an upload flow stopped by a refused POST and a delete flow stopped by a
\* refused DELETE, all answers delivered, both flags down
C9_Witness ==
    /\ \E i \in UpIdx : upFlows[i].pc = "failed" /\ upFlows[i].cause = "post"
    /\ \E i \in DelIdx : delFlows[i].pc = "failed"
    /\ net = {}
    /\ ~reloaded /\ ~uploading /\ ~loading

\* C11: a dismissal leaves its notification not shown, and a dismissal made
\* where the notification is already dismissed changes nothing: twice in a
\* row is the same as once.
C11_DismissIdempotent ==
    [][/\ HandleCloseError => error' = NoText
       /\ (error = NoText /\ HandleCloseError) => UNCHANGED vars
       /\ HandleCloseSuccess => success' = FALSE
       /\ (success = FALSE /\ HandleCloseSuccess) => UNCHANGED vars]_vars

\* both notifications were raised and both have been dismissed: the success
\* text of an upload is still in its cell, the flow that failed left no error
C11_Witness ==
    /\ ~success /\ successMessage # NoText
    /\ error = NoText
    /\ \E i \in UpIdx : upFlows[i].pc = "done"
    /\ ~uploading /\ ~reloaded

\* the POSTs that are on their way to the backend or back
PostsInFlight == {m \in net : m.kind = "POST"}

\* C12: at most one upload POST is in flight.
C12_OnePostInFlight == Cardinality(PostsInFlight) <= 1

\* the list re-fetch of the flow of this owner has been refused and the answer
\* is about to be delivered
RefetchRefused(owner) ==
    \E m \in net : /\ m.owner = owner /\ m.kind = "GET"
                   /\ m.phase = "resp" /\ ~m.ok

\* C13: a flow in which a step failed goes no further: after a refused POST
\* or DELETE or a refused list re-fetch of the flow, the flow sends nothing,
\* calls no callback, raises no success notification, reloads nothing.
C13_ErrorsAreTerminal ==
    [][/\ \A i \in UpIdx :
             \/ upFlows[i].pc = "failed"
             \/ upFlows[i].pc = "refetch" /\ RefetchRefused(UpOwner(i))
                    /\ upFlows'[i].pc # "refetch"
             => /\ upFlows'[i].cb = upFlows[i].cb
                /\ InFlightOf(i, net') = {}
       /\ \A i \in DelIdx :
             \/ delFlows[i].pc = "failed"
             \/ delFlows[i].pc = "refetch" /\ RefetchRefused(DelOwner(i))
                    /\ delFlows'[i].pc = "done"
             => /\ delFlows'[i].cb = delFlows[i].cb
                /\ reloaded' = reloaded]_vars

\* no request is in flight and no flow is running, on the page that ran them
Quiescent ==
    /\ net = {}
    /\ ~reloaded
    /\ \A i \in UpIdx : upFlows[i].pc \in {"done", "failed"}
    /\ \A i \in DelIdx : delFlows[i].pc \in {"done", "failed"}

\* a flow of this panel has changed the server's set of files
HasMutated ==
    \/ \E i \in UpIdx : Len(upFlows[i].names) >= 1
    \/ \E i \in DelIdx : "DELETE ok" \in Range(delFlows[i].events)

\* C14: when the panel is quiescent after flows that changed the server's
\* files, uploadedFiles is the server's list.
C14_ListFollowsServer == (Quiescent /\ HasMutated) => uploadedFiles = server

\* the requests and responses of delete flow i
DelInFlight(i, msgs) == {m \in msgs : m.owner = DelOwner(i)}

\* C15: a refused DELETE ends its flow: error is set, onFileDeleted is not
\* called, no list is fetched, nothing is reloaded, uploadedFiles is kept,
\* loading is false and the delete target is cleared; the flow does nothing
\* afterwards.
C15_DeleteFailure ==
    [][/\ \A m \in net : (m.kind = "DELETE" /\ ~m.ok /\ Delivered(m)) =>
             LET i == m.owner.i
             IN  /\ delFlows'[i].pc = "failed"
                 /\ delFlows'[i].cb = <<>>
                 /\ DelInFlight(i, net') = {}
                 /\ error' # NoText
                 /\ uploadedFiles' = uploadedFiles
                 /\ loading' = FALSE
                 /\ fileToDelete' = NoText
                 /\ reloaded' = FALSE
       /\ \A i \in DelIdx : delFlows[i].pc = "failed" =>
             /\ delFlows'[i] = delFlows[i]
             /\ DelInFlight(i, net') = {}]_vars

\* the delete of "a .md" was refused: the file is still listed, nothing runs
C15_Witness ==
    \E i \in DelIdx :
        /\ delFlows[i].pc = "failed"
        /\ delFlows[i].target = NameA
        /\ delFlows[i].events = <<"DELETE sent", "DELETE failed">>
        /\ error # NoText
        /\ uploadedFiles = <<NameA>>
        /\ ~loading /\ fileToDelete = NoText /\ ~reloaded

\* everything but the two cells of the prompt
BesidesPrompt ==
    <<files, uploadedFiles, uploading, loading, error, success, successMessage,
      upFlows, delFlows, net, server, reloaded>>

\* C16 (as amended): cancelDelete closes the prompt and clears the target and
\* changes nothing else: no request, no callback, no other cell; and
\* requestDelete(f) made with the prompt closed only opens the prompt on f, so
\* that cancelDelete after it gives back the state before it.
C16_CancelDelete ==
    [][/\ CloseDeleteConfirm =>
             /\ deleteConfirmOpen' = FALSE
             /\ fileToDelete' = NoText
             /\ UNCHANGED BesidesPrompt
       /\ \A f \in Names : (~deleteConfirmOpen /\ OpenDeleteConfirm(f)) =>
             /\ fileToDelete = NoText
             /\ deleteConfirmOpen' = TRUE
             /\ fileToDelete' = f
             /\ UNCHANGED BesidesPrompt]_vars

\* the prompt is open on a listed file while an error is shown and a file is
\* staged: what cancelDelete has to leave alone
C16_Witness ==
    /\ deleteConfirmOpen /\ fileToDelete = NameA
    /\ error # NoText
    /\ files # <<>>
    /\ ENABLED CloseDeleteConfirm

\* C16 (as stated): from every reachable state, requestDelete(f) on a listed
\* file followed by cancelDelete gives the state back.  cancelDelete leaves
\* the prompt closed and no target, whatever requestDelete staged, so the
\* state comes back exactly where the prompt was closed with no target.
C16_CancelRestores ==
    \A f \in Range(uploadedFiles) :
        [open |-> FALSE, target |-> NoText] =
            [open |-> deleteConfirmOpen, target |-> fileToDelete]

\* C17: while a delete flow of this page awaits the answer to its DELETE,
\* loading is true.
C17_LoadingWhileDeleting ==
    \A i \in DelIdx : delFlows[i].pc = "delete" => loading

\* how many entries of the list are this name
Count(list, name) == Cardinality({k \in 1..Len(list) : list[k] = name})

\* the flows whose last POST is answered with success in this step
Completing == {i \in UpIdx : upFlows[i].pc = "post" /\ upFlows'[i].pc = "refetch"}

\* C18: a staged file leaves files only by removeFile on it or when a flow
\* that posted it has had all its POSTs accepted.
C18_NoStagedFileDropped ==
    [][\A name \in Names : Count(files', name) < Count(files, name) =>
          \/ \E index \in 0..(Len(files) - 1) :
                RemoveFile(index) /\ files[index + 1] = name
          \/ \E i \in Completing : name \in Range(upFlows[i].files)]_vars

\* C19: the confirmation prompt is open exactly when a delete target is staged.
C19_PromptIffTarget == deleteConfirmOpen <=> fileToDelete # NoText

====
